---- MODULE Spec2Model ----
(***************************************************************************)
(* A model of the GoFlow HTTP router (Mux): route registration into the    *)
(* route tree, the static-path index, middleware wrapping with its         *)
(* memoized composition, and request dispatch through ServeHTTP.           *)
(*                                                                         *)
(* Strings of the program are modelled as follows.  A URL path or a route  *)
(* pattern "/a/b" is the sequence <<"a","b">> of the texts between its     *)
(* slashes; "/" (and the empty path, which ServeHTTP rewrites to "/") is   *)
(* <<>>, and "/a/" is <<"a","">>.  A key of the static index ("a/b") is    *)
(* the same kind of sequence, "" being <<>>.  Handlers and middlewares are *)
(* opaque identities; a wrapped handler m1(m2(h)) is the record            *)
(* [chain |-> <<"m1","m2">>, h |-> "h"].                                    *)
(*                                                                         *)
(* The second part models the sharded RateLimiter: one shard with its      *)
(* lock and bucket map, the buckets with their atomically accessed fields, *)
(* and concurrent callers of Allow, one step per lock operation, map       *)
(* access or atomic operation.  Time is a counter of clock ticks.          *)
(*                                                                         *)
(* The third part models requests that are served concurrently: the pooled *)
(* parameter maps of ServeHTTP and the handler goroutine that the Timeout  *)
(* middleware starts and may leave running.                                *)
(*                                                                         *)
(* The fourth part models the middlewares at work: one request passing     *)
(* through a chain of Recovery, Logger and Timeout to a handler that        *)
(* returns or panics, with the goroutines and their call stacks; and the    *)
(* RateLimit middleware with its bucket map, the mutex of every bucket and  *)
(* its cleanup goroutine.                                                   *)
(***************************************************************************)
EXTENDS Integers, Sequences, FiniteSets, TLC

VARIABLES tree, staticHandlers, mux, regs, last

vars == <<tree, staticHandlers, mux, regs, last>>

\* rl: the RateLimiter; buckets: shard.buckets, from key to bucket; heap: the
\* buckets allocated so far; writer: the caller that holds shard.Lock;
\* clock: time.Now; proc: the position and the local variables of every
\* caller of Allow; log: the calls that have returned, with the clock sample
\* they used, the clock at their return, their result and the path that
\* produced it; overlap: whether a call was ever started while another one
\* was running
VARIABLES rl, buckets, heap, writer, clock, proc, log, overlap

limiterVars == <<rl, buckets, heap, writer, clock, proc, log, overlap>>

\* paramsPool: the parameter maps that are in the pool; paramMaps: the
\* contents of the parameter maps allocated so far; reqs: the requests being
\* served concurrently, with the handler invoked for each, the map it was
\* given and the bindings of its own path
VARIABLES paramsPool, paramMaps, reqs

\* responseWriterPool: the statusWriters that are in the pool; statusWriters:
\* the statusWriters allocated so far, with the response each is bound to;
\* responses: for the response handed to ServeHTTP with each request, the
\* WriteHeader calls that have reached it
VARIABLES responseWriterPool, statusWriters, responses

poolVars ==
    <<paramsPool, paramMaps, reqs, responseWriterPool, statusWriters, responses>>

\* mwChain: the middleware chain around the handler; gos: the goroutines that
\* serve the request, with what each is doing and the frames on its stack;
\* writes: the WriteHeader calls made on the response; ctx: the context made
\* by Timeout; doneClosed: whether Timeout's done channel is closed; exit:
\* how the call of ServeHTTP ended; raised: whether the handler panicked;
\* events: what happened, in order
VARIABLES mwChain, gos, writes, ctx, doneClosed, exit, raised, events

chainVars == <<mwChain, gos, writes, ctx, doneClosed, exit, raised, events>>

\* rate: the arguments of RateLimit; ipBuckets: its sync.Map, from client key
\* to bucket; bheap: the buckets allocated so far; rproc: the requests inside
\* the middleware; rateClock: time.Now; decisions: the requests answered so
\* far, with the time of the decision and whether they were forwarded
VARIABLES rate, ipBuckets, bheap, rproc, rateClock, decisions

rateVars == <<rate, ipBuckets, bheap, rproc, rateClock, decisions>>

mwVars == <<chainVars, rateVars>>

allVars == <<vars, limiterVars, poolVars, mwVars>>

----------------------------------------------------------------------------
(* Bounds *)

MaxHandle == 2
MaxMiddlewares == 2
MaxCalls == 4
MaxTime == 3
MaxRuns == 2
MaxRateTime == 5

----------------------------------------------------------------------------
(* Constants of the program *)

MethodGet == "GET"
MethodPost == "POST"
MethodHead == "HEAD"
MethodOptions == "OPTIONS"

AllMethods ==
    <<"GET", "HEAD", "POST", "PUT", "PATCH", "DELETE", "CONNECT", "OPTIONS", "TRACE">>

\* strings.ToUpper on the method names that occur
ToUpper(s) == IF s = "get" THEN "GET" ELSE s

\* Lexicographic rank of the upper-case method names (the order of sort.Strings)
MethodRank ==
    ("CONNECT" :> 1) @@ ("DELETE" :> 2) @@ ("GET" :> 3) @@ ("HEAD" :> 4) @@
    ("OPTIONS" :> 5) @@ ("PATCH" :> 6) @@ ("POST" :> 7) @@ ("PUT" :> 8) @@
    ("TRACE" :> 9)

----------------------------------------------------------------------------
(* Inputs *)

Root == <<>>

\* The key under which a node's parameter child is stored (node.paramChild);
\* no literal child has this key, because a segment ":" is stored as "".
ParamKey == ":"

RxDigits == "^\\d+$"

\* strings.HasPrefix(segment, ":") and strings.Cut(TrimPrefix(segment, ":"), "|")
\* for the parameter segments that occur in the patterns
ParamSyntax ==
    (":id" :> [paramName |-> "id", rxPattern |-> "", hasRx |-> FALSE]) @@
    (":action" :> [paramName |-> "action", rxPattern |-> "", hasRx |-> FALSE]) @@
    (":id|^\\d+$" :> [paramName |-> "id", rxPattern |-> RxDigits, hasRx |-> TRUE]) @@
    (":name" :> [paramName |-> "name", rxPattern |-> "", hasRx |-> FALSE])

\* regexp.MatchString for the validators that occur
MatchString(rx, segment) ==
    IF rx = RxDigits THEN segment \in {"123"} ELSE TRUE

\* The routes that are registered: a pattern and the methods passed with it
Routes ==
    { [pattern |-> <<>>, methods |-> <<"GET">>],
      [pattern |-> <<"resource">>, methods |-> <<"GET">>],
      [pattern |-> <<"resource">>, methods |-> <<"GET", "POST">>],
      [pattern |-> <<"resource">>, methods |-> <<"POST">>],
      [pattern |-> <<"resource">>, methods |-> <<>>],
      [pattern |-> <<"users", "new">>, methods |-> <<"GET">>],
      [pattern |-> <<"users", ":id">>, methods |-> <<"GET">>],
      [pattern |-> <<"users", ":id|^\\d+$">>, methods |-> <<"GET">>],
      [pattern |-> <<"users", ":id", ":action">>, methods |-> <<"GET">>],
      [pattern |-> <<"static", "...">>, methods |-> <<"GET">>] }

RequestPaths ==
    { <<>>,
      <<"resource">>,
      <<"users">>,
      <<"users", "new">>,
      <<"users", "123">>,
      <<"users", "abc">>,
      <<"users", "123", "edit">>,
      <<"users", "new", "edit">>,
      <<"static", "">>,
      <<"static", "css", "a.css">>,
      <<"missing">> }

RequestMethods == { "GET", "HEAD", "POST", "OPTIONS" }

\* The routes and requests of the runs with a route group
GroupRoutes ==
    { [pattern |-> <<"resource">>, methods |-> <<"GET">>],
      [pattern |-> <<"resource">>, methods |-> <<"POST">>],
      [pattern |-> <<"users", ":id">>, methods |-> <<"GET">>] }

GroupRequestPaths == { <<"resource">>, <<"users", "123">>, <<"missing">> }

\* The routes and requests of the runs with a wildcard route and routes at
\* and under its prefix
WildcardRoutes ==
    { [pattern |-> <<"static", "...">>, methods |-> <<"GET">>],
      [pattern |-> <<"static">>, methods |-> <<"GET">>],
      [pattern |-> <<"static", "css">>, methods |-> <<"GET">>],
      [pattern |-> <<"static", ":id">>, methods |-> <<"GET">>] }

WildcardRequestPaths ==
    { <<"static">>, <<"static", "">>, <<"static", "css">>, <<"static", "x">>,
      <<"static", "css", "a.css">> }

\* The routes and requests of the runs with several parameter segments at
\* one position of the tree
ParamRoutes ==
    { [pattern |-> <<"users", ":id">>, methods |-> <<"GET">>],
      [pattern |-> <<"users", ":name">>, methods |-> <<"POST">>],
      [pattern |-> <<"users", ":id|^\\d+$">>, methods |-> <<"POST">>],
      [pattern |-> <<"users", ":name", ":action">>, methods |-> <<"GET">>] }

ParamRequestPaths ==
    { <<"users", "123">>, <<"users", "abc">>, <<"users", "123", "edit">> }

\* The middleware passed to a Use call on a router whose list has n entries
\* (every call passes its own)
MiddlewareOf(id, n) ==
    IF id = "m" THEN (IF n = 0 THEN "m1" ELSE IF n = 1 THEN "m2" ELSE "m3")
    ELSE (IF n = 0 THEN "g1" ELSE IF n = 1 THEN "g2" ELSE IF n = 2 THEN "g3" ELSE "g4")

MuxIds == { "m", "g" }

\* The handler passed to the n-th Handle call (every call passes its own)
HandlerOf(n) == IF n = 1 THEN "h1" ELSE IF n = 2 THEN "h2" ELSE IF n = 3 THEN "h3" ELSE "h4"

\* The configurations passed to NewRateLimiter(requests, duration, burst)
RequestsValues == { 0, 1, 2 }

BurstValues == { 0, 1 }

\* duration.Nanoseconds(), in clock ticks
Interval == 2

\* rl.maxSize is 32768 in the program; the model gives a shard room for two
\* buckets
maxSize == 2

\* The requests in flight, the routes registered before they arrive, the
\* middleware lists in use (without and with Timeout) and the paths requested
Reqs == { "r1", "r2" }

PoolRoutes == << <<"users", ":id">>, <<"users", ":id", ":action">> >>

PoolMiddlewares == { <<>>, <<"Timeout">> }

PoolPaths ==
    { <<"users", "123">>, <<"users", "abc">>, <<"users", "123", "edit">>,
      <<"missing">> }

\* The middleware lists passed to Use in the runs of one request through its
\* chain, the goroutines that serve it (the caller's, and the one that Timeout
\* starts), and the statuses the handler writes (0: it writes nothing)
ChainValues ==
    { <<>>, <<"Recovery">>, <<"Logger">>, <<"Timeout">>,
      <<"Recovery", "Timeout">>, <<"Timeout", "Recovery">>,
      <<"Recovery", "Logger", "Timeout">> }

Goroutines == { "main", "worker" }

HandlerStatuses == { 0, 200 }

\* The arguments of RateLimit(requests, duration), the requests inside the
\* middleware and the client keys they carry
RateRequests == { 1, 2 }

RateReqs == { "q1", "q2" }

ClientKeys == { "ip1" }

\* the zero time.Time, the lastSeen of a bucket that no request has checked:
\* long before the clock starts
ZeroTime == -100

\* The goroutines that call Allow, and the keys they pass
Procs == { "p1", "p2" }

Keys == { "a" }

\* The keys of the runs that fill the shard: more keys than it has room for
ManyKeys == { "a", "b", "c" }

\* the duration of the runs in which buckets grow old: one clock tick
ShortInterval == 1

----------------------------------------------------------------------------
(* Values *)

EmptyMap == [k \in {} |-> k]

Put(f, k, v) == (k :> v) @@ f

NilHandler == [chain |-> <<>>, h |-> "nil"]

\* an http.Handler before any middleware is applied to it
Plain(h) == [chain |-> <<>>, h |-> h]

NilMethods == [isNil |-> TRUE, handlers |-> EmptyMap, allowedList |-> <<>>]

newMethodHandler == [isNil |-> FALSE, handlers |-> EmptyMap, allowedList |-> <<>>]

NoRx == "<nil>"

newRouteTree(paramName) ==
    [methods |-> NilMethods, paramName |-> paramName, rxPattern |-> NoRx,
     isWildcard |-> FALSE]

newMux ==
    [exists |-> TRUE, middlewares |-> <<>>, cached |-> NilHandler, optimized |-> FALSE]

NoRequest ==
    [op |-> "none", method |-> "", path |-> <<>>, via |-> "", handler |-> NilHandler,
     hasParams |-> FALSE, params |-> EmptyMap, allow |-> <<>>]

----------------------------------------------------------------------------
(* Helpers of the router *)

contains(slice, item) == \E i \in 1..Len(slice) : slice[i] = item

RECURSIVE TrimLeft(_)
TrimLeft(q) == IF q # <<>> /\ Head(q) = "" THEN TrimLeft(Tail(q)) ELSE q

RECURSIVE TrimRight(_)
TrimRight(q) ==
    IF q # <<>> /\ q[Len(q)] = "" THEN TrimRight(SubSeq(q, 1, Len(q) - 1)) ELSE q

\* strings.Split(strings.Trim(pattern, "/"), "/"): all leading and trailing
\* slashes are cut, and splitting the empty string yields one empty segment
SplitPattern(pattern) ==
    LET t == TrimRight(TrimLeft(pattern))
    IN  IF t = <<>> THEN <<"">> ELSE t

\* Mux.getPathSegments: nil for "" and "/"; otherwise a segment is closed at
\* every later slash, and the rest is appended only when the path does not
\* end with a slash
getPathSegments(path) ==
    IF path = <<>> THEN <<>>
    ELSE IF path[Len(path)] = "" THEN SubSeq(path, 1, Len(path) - 1)
    ELSE path

RECURSIVE SortStrings(_)
SortStrings(S) ==
    IF S = {} THEN <<>>
    ELSE LET lo == CHOOSE x \in S : \A y \in S : MethodRank[x] <= MethodRank[y]
         IN  <<lo>> \o SortStrings(S \ {lo})

updateAllowedList(handlers) ==
    Append(SortStrings(DOMAIN handlers), MethodOptions)

addHandler(mh, method, handler) ==
    LET handlers == Put(mh.handlers, method, handler)
    IN  [isNil |-> FALSE, handlers |-> handlers,
         allowedList |-> updateAllowedList(handlers)]

\* The key of the child that findOrCreateChild returns for a pattern segment
ChildKey(segment) ==
    IF segment \in DOMAIN ParamSyntax
    THEN IF ParamSyntax[segment].paramName # "" THEN ParamKey ELSE ""
    ELSE segment

findOrCreateChild(t, node, segment, paramName) ==
    IF paramName # ""
    THEN IF Append(node, ParamKey) \in DOMAIN t
         THEN t
         ELSE Put(t, Append(node, ParamKey), newRouteTree(paramName))
    ELSE IF Append(node, segment) \in DOMAIN t
         THEN t
         ELSE Put(t, Append(node, segment), newRouteTree(""))

withHandler(node, method, handler) ==
    [node EXCEPT !.methods =
        addHandler(IF @.isNil THEN newMethodHandler ELSE @, method, handler)]

RECURSIVE addRouteFrom(_, _, _, _, _)
addRouteFrom(t, current, segments, method, handler) ==
    IF segments = <<>> THEN t
    ELSE
    LET segment == Head(segments)
    IN  IF segment = "..."
        THEN [t EXCEPT ![current] =
                 withHandler([@ EXCEPT !.isWildcard = TRUE], method, handler)]
        ELSE
        LET isParam == segment \in DOMAIN ParamSyntax
            child == Append(current, ChildKey(segment))
            t1 == IF isParam
                  THEN findOrCreateChild(t, current, "", ParamSyntax[segment].paramName)
                  ELSE findOrCreateChild(t, current, segment, "")
            t2 == IF isParam /\ ParamSyntax[segment].hasRx
                  THEN [t1 EXCEPT ![child].rxPattern = ParamSyntax[segment].rxPattern]
                  ELSE t1
            t3 == IF Len(segments) = 1
                  THEN [t2 EXCEPT ![child] = withHandler(@, method, handler)]
                  ELSE t2
        IN  addRouteFrom(t3, child, Tail(segments), method, handler)

addRoute(t, pattern, method, handler) ==
    addRouteFrom(t, Root, SplitPattern(pattern), method, handler)

RECURSIVE findHandler(_, _, _, _)
findHandler(t, node, segments, params) ==
    IF Len(segments) = 0
    THEN [methods |-> t[node].methods, params |-> params, found |-> TRUE]
    ELSE
    LET segment == Head(segments)
        remaining == Tail(segments)
        child == Append(node, segment)
        pc == Append(node, ParamKey)
    IN  IF segment # ParamKey /\ child \in DOMAIN t
        THEN findHandler(t, child, remaining, params)
        ELSE IF pc \in DOMAIN t
                /\ (t[pc].rxPattern = NoRx \/ MatchString(t[pc].rxPattern, segment))
        THEN findHandler(t, pc, remaining, Put(params, t[pc].paramName, segment))
        ELSE [methods |-> NilMethods, params |-> EmptyMap, found |-> FALSE]

\* The literal children of a node (node.children)
children(t, node) ==
    { k \in { n[Len(n)] : n \in { x \in DOMAIN t : Len(x) = Len(node) + 1 } } :
        k # ParamKey /\ Append(node, k) \in DOMAIN t }

lookupGet(mh) ==
    IF MethodGet \in DOMAIN mh.handlers THEN mh.handlers[MethodGet] ELSE NilHandler

RECURSIVE buildStaticPaths(_, _, _, _)
RECURSIVE buildChildren(_, _, _, _, _)
buildStaticPaths(t, sh, node, prefix) ==
    IF Append(node, ParamKey) \in DOMAIN t \/ t[node].isWildcard
    THEN sh
    ELSE LET sh1 == IF ~t[node].methods.isNil
                    THEN Put(sh, prefix,
                             [methods |-> node, get |-> lookupGet(t[node].methods)])
                    ELSE sh
         IN  buildChildren(t, sh1, node, prefix, children(t, node))

buildChildren(t, sh, node, prefix, todo) ==
    IF todo = {} THEN sh
    ELSE LET segment == CHOOSE k \in todo : TRUE
             newPrefix == IF prefix # <<>> THEN Append(prefix, segment)
                          ELSE IF segment = "" THEN <<>> ELSE <<segment>>
         IN  buildChildren(t,
                 buildStaticPaths(t, sh, Append(node, segment), newPrefix),
                 node, prefix, todo \ {segment})

precomputeStaticPaths(t) == buildStaticPaths(t, EmptyMap, Root, <<>>)

RECURSIVE applyMiddlewares(_, _, _)
applyMiddlewares(middlewares, i, h) ==
    IF i < 1 THEN h
    ELSE applyMiddlewares(middlewares, i - 1,
             [chain |-> <<middlewares[i]>> \o h.chain, h |-> h.h])

\* wrap that returns the memo and then replaces it by the new composition
wrapRefreshing(mx, handler) ==
    LET h == applyMiddlewares(mx.middlewares, Len(mx.middlewares), handler)
    IN  IF mx.cached # NilHandler
        THEN [handler |-> mx.cached, cached |-> h]
        ELSE [handler |-> h, cached |-> h]

\* Mux.wrap: the handler it returns and the memo it leaves behind
wrap(mx, handler) ==
    IF mx.cached # NilHandler
    THEN [handler |-> mx.cached, cached |-> mx.cached]
    ELSE LET h == applyMiddlewares(mx.middlewares, Len(mx.middlewares), handler)
         IN  [handler |-> h, cached |-> h]

\* Param: the value bound to a name in the request context, "" when unbound
Param(req, param) ==
    IF req.hasParams /\ param \in DOMAIN req.params THEN req.params[param] ELSE ""


----------------------------------------------------------------------------
(* Operations *)

\* a caller that is not inside Allow
Idle ==
    [pc |-> "idle", key |-> "", now |-> 0, b |-> 0, lastSeen |-> 0, val |-> 0,
     locked |-> FALSE]

NoWriter == "none"

\* NewRateLimiter: the limiter with its (empty) shard, before any call
NewRateLimiter(requests, duration, burst) ==
    /\ rl = [requests |-> requests, burst |-> burst, interval |-> duration,
             maxSize |-> maxSize]
    /\ buckets = EmptyMap
    /\ heap = EmptyMap
    /\ writer = NoWriter
    /\ clock = 0
    /\ proc = [p \in Procs |-> Idle]
    /\ log = <<>>
    /\ overlap = FALSE

\* a request slot that is not in use
NoReq ==
    [pc |-> "idle", runs |-> 0, path |-> <<>>, handler |-> NilHandler,
     params |-> 0, hasParams |-> FALSE, bound |-> EmptyMap,
     sw |-> 0, wrote |-> FALSE]

\* a goroutine that is not running
NoGoroutine == [mode |-> "idle", stack |-> <<>>, base |-> 0]

\* the handler of a route wrapped in the middlewares, before any request
NewServe(middlewares) ==
    /\ mwChain = middlewares
    /\ gos = [g \in Goroutines |-> NoGoroutine]
    /\ writes = <<>>
    /\ ctx = "none"
    /\ doneClosed = FALSE
    /\ exit = "none"
    /\ raised = FALSE
    /\ events = <<>>

\* a request that is not inside RateLimit
NoRateReq == [pc |-> "idle", ip |-> "", b |-> 0]

\* RateLimit(requests, duration): the middleware before any request
NewRateLimit(requests, duration) ==
    /\ rate = [requests |-> requests, duration |-> duration]
    /\ ipBuckets = EmptyMap
    /\ bheap = EmptyMap
    /\ rproc = [r \in RateReqs |-> NoRateReq]
    /\ rateClock = 0
    /\ decisions = <<>>

\* paramsPool and responseWriterPool before any request
NewPool ==
    /\ paramsPool = {}
    /\ paramMaps = EmptyMap
    /\ reqs = [r \in Reqs |-> NoReq]
    /\ responseWriterPool = {}
    /\ statusWriters = EmptyMap
    /\ responses = [r \in Reqs |-> {}]

\* New: the router before any registration
NewMux ==
    /\ tree = (Root :> newRouteTree(""))
    /\ staticHandlers = EmptyMap
    /\ mux = [id \in MuxIds |->
                IF id = "m" THEN newMux ELSE [newMux EXCEPT !.exists = FALSE]]
    /\ regs = <<>>
    /\ last = NoRequest

\* the runs of the router: a limiter is constructed and never called
Init ==
    /\ NewMux
    /\ NewRateLimiter(1, Interval, 1)
    /\ NewPool
    /\ NewServe(<<>>)
    /\ NewRateLimit(1, Interval)

\* the methods a Handle call registers: the default set, and the implied HEAD
handleMethods(methods) ==
    LET ms == IF Len(methods) = 0 THEN AllMethods ELSE methods
    IN  IF contains(ms, MethodGet) /\ ~contains(ms, MethodHead)
        THEN Append(ms, MethodHead)
        ELSE ms

\* the loop of Handle over the methods; the tree built so far is evaluated
\* (DOMAIN t) before the next addRoute is applied to it
RECURSIVE addRoutes(_, _, _, _)
addRoutes(t, pattern, methods, handler) ==
    IF methods = <<>> \/ DOMAIN t = {} THEN t
    ELSE addRoutes(addRoute(t, pattern, ToUpper(Head(methods)), handler),
                   pattern, Tail(methods), handler)

Handle(id, pattern, handler, methods) ==
    /\ last = NoRequest
    /\ mux[id].exists
    /\ Len(regs) < MaxHandle
    /\ LET w == wrap(mux[id], Plain(handler))
           t == addRoutes(tree, pattern, handleMethods(methods), w.handler)
       IN  /\ tree' = t
           /\ mux' = [mux EXCEPT ![id].cached = w.cached]
           /\ staticHandlers' =
                 IF mux[id].optimized THEN precomputeStaticPaths(t) ELSE staticHandlers
    /\ regs' = Append(regs, [mux |-> id, pattern |-> pattern, handler |-> handler,
                             methods |-> methods,
                             middlewares |-> mux[id].middlewares])
    /\ last' = NoRequest
    /\ UNCHANGED <<limiterVars, poolVars, mwVars>>

Use(id, mw) ==
    /\ last = NoRequest
    /\ mux[id].exists
    /\ Len(mux[id].middlewares) < MaxMiddlewares
    /\ mux' = [mux EXCEPT ![id].middlewares = Append(@, mw),
                          ![id].cached = NilHandler]
    /\ last' = NoRequest
    /\ UNCHANGED <<tree, staticHandlers, regs>>
    /\ UNCHANGED <<limiterVars, poolVars, mwVars>>

Group ==
    /\ last = NoRequest
    /\ ~mux["g"].exists
    /\ mux' = [mux EXCEPT !["g"] =
                  [newMux EXCEPT !.middlewares = mux["m"].middlewares]]
    /\ last' = NoRequest
    /\ UNCHANGED <<tree, staticHandlers, regs>>
    /\ UNCHANGED <<limiterVars, poolVars, mwVars>>

Optimize(id) ==
    /\ last = NoRequest
    /\ mux[id].exists
    /\ ~mux[id].optimized
    /\ staticHandlers' = precomputeStaticPaths(tree)
    /\ mux' = [mux EXCEPT ![id].optimized = TRUE]
    /\ last' = NoRequest
    /\ UNCHANGED <<tree, regs>>
    /\ UNCHANGED <<limiterVars, poolVars, mwVars>>

\* What Mux.ServeHTTP does with a request in the current state: the handler it
\* invokes, the parameters it puts in the request context, the Allow header
\* it sets, and the memo that wrap leaves behind
ServeResult(method, path) ==
    IF /\ method = MethodGet
       /\ path \in DOMAIN staticHandlers
       /\ staticHandlers[path].get # NilHandler
    THEN [via |-> "static", handler |-> staticHandlers[path].get,
          hasParams |-> FALSE, params |-> EmptyMap, allow |-> <<>>,
          cached |-> mux["m"].cached]
    ELSE
    LET r == findHandler(tree, Root, getPathSegments(path), EmptyMap)
    IN  IF r.found /\ ~r.methods.isNil
        THEN IF method \in DOMAIN r.methods.handlers
             THEN [via |-> "route", handler |-> r.methods.handlers[method],
                   hasParams |-> r.params # EmptyMap,
                   params |-> r.params, allow |-> <<>>,
                   cached |-> mux["m"].cached]
             ELSE LET w == IF method = MethodOptions
                           THEN wrap(mux["m"], Plain("Options"))
                           ELSE wrap(mux["m"], Plain("MethodNotAllowed"))
                  IN  [via |-> IF method = MethodOptions THEN "options" ELSE "notallowed",
                       handler |-> w.handler,
                       hasParams |-> FALSE, params |-> EmptyMap,
                       allow |-> r.methods.allowedList, cached |-> w.cached]
        ELSE LET w == wrap(mux["m"], Plain("NotFound"))
             IN  [via |-> "notfound", handler |-> w.handler,
                  hasParams |-> FALSE, params |-> EmptyMap, allow |-> <<>>,
                  cached |-> w.cached]

ServeHTTP(method, path) ==
    LET res == ServeResult(method, path)
    IN  /\ last = NoRequest
        /\ mux' = [mux EXCEPT !["m"].cached = res.cached]
        /\ last' = [op |-> "ServeHTTP", method |-> method, path |-> path,
                    via |-> res.via, handler |-> res.handler,
                    hasParams |-> res.hasParams, params |-> res.params,
                    allow |-> res.allow]
        /\ UNCHANGED <<tree, staticHandlers, regs>>
        /\ UNCHANGED <<limiterVars, poolVars, mwVars>>

\* httptest.NewRecorder: the response of the request just served has been
\* inspected, and the next operation starts with a fresh recorder
NewRecorder ==
    /\ last # NoRequest
    /\ last' = NoRequest
    /\ UNCHANGED <<tree, staticHandlers, mux, regs>>
    /\ UNCHANGED <<limiterVars, poolVars, mwVars>>

\* The status a handler writes when nothing else does: the default fallbacks
\* write 404, 405 and 204, and the handlers passed to Handle write nothing,
\* which the server reports as 200
statusOf(handler) ==
    IF handler.h = "NotFound" THEN 404
    ELSE IF handler.h = "MethodNotAllowed" THEN 405
    ELSE IF handler.h = "Options" THEN 204
    ELSE 200

\* One router: registration, middleware, Optimize and requests
Next ==
    \/ \E route \in Routes :
          Handle("m", route.pattern, HandlerOf(Len(regs) + 1), route.methods)
    \/ Use("m", MiddlewareOf("m", Len(mux["m"].middlewares)))
    \/ Optimize("m")
    \/ \E method \in RequestMethods, path \in RequestPaths : ServeHTTP(method, path)
    \/ NewRecorder

Spec == Init /\ [][Next]_allVars

\* One router with a wildcard route and routes at and under its prefix
NextWildcard ==
    \/ \E route \in WildcardRoutes :
          Handle("m", route.pattern, HandlerOf(Len(regs) + 1), route.methods)
    \/ Use("m", MiddlewareOf("m", Len(mux["m"].middlewares)))
    \/ Optimize("m")
    \/ \E method \in RequestMethods, path \in WildcardRequestPaths :
          ServeHTTP(method, path)
    \/ NewRecorder

SpecWildcard == Init /\ [][NextWildcard]_allVars

\* One router with several parameter segments at one position of the tree
NextParams ==
    \/ \E route \in ParamRoutes :
          Handle("m", route.pattern, HandlerOf(Len(regs) + 1), route.methods)
    \/ Use("m", MiddlewareOf("m", Len(mux["m"].middlewares)))
    \/ Optimize("m")
    \/ \E method \in RequestMethods, path \in ParamRequestPaths :
          ServeHTTP(method, path)
    \/ NewRecorder

SpecParams == Init /\ [][NextParams]_allVars

\* A router and a route group made from it
NextGroup ==
    \/ \E id \in MuxIds, route \in GroupRoutes :
          Handle(id, route.pattern, HandlerOf(Len(regs) + 1), route.methods)
    \/ \E id \in MuxIds : Use(id, MiddlewareOf(id, Len(mux[id].middlewares)))
    \/ Group
    \/ \E id \in MuxIds : Optimize(id)
    \/ \E method \in RequestMethods, path \in GroupRequestPaths : ServeHTTP(method, path)
    \/ NewRecorder

SpecGroup == Init /\ [][NextGroup]_allVars

----------------------------------------------------------------------------
(* The rate limiter *)

\* the calls of Allow that have been started
Started == Len(log) + Cardinality({ p \in Procs : proc[p].pc # "idle" })

\* return from Allow: the deferred shard.Unlock runs when this call chain
\* took the lock, and the call is recorded
Return(p, result, kind) ==
    /\ proc' = [proc EXCEPT ![p] = Idle]
    /\ writer' = IF proc[p].locked THEN NoWriter ELSE writer
    /\ log' = Append(log, [key |-> proc[p].key, now |-> proc[p].now,
                           lastSeen |-> proc[p].lastSeen, end |-> clock,
                           result |-> result, kind |-> kind])

\* rl.Allow(key) is called: getShard and time.Now
AllowBegin(p, key) ==
    /\ proc[p].pc = "idle"
    /\ Started < MaxCalls
    /\ proc' = [proc EXCEPT ![p] = [Idle EXCEPT !.pc = "lookup", !.key = key,
                                                !.now = clock]]
    /\ overlap' = (overlap \/ \E q \in Procs \ {p} : proc[q].pc # "idle")
    /\ UNCHANGED <<rl, buckets, heap, writer, clock, log>>
    /\ UNCHANGED <<vars, poolVars, mwVars>>

\* shard.RLock; b, exists := shard.buckets[key]; shard.RUnlock.  RLock blocks
\* while shard.Lock is held, by whichever caller
Lookup(p) ==
    /\ proc[p].pc = "lookup"
    /\ writer = NoWriter
    /\ proc' = IF proc[p].key \in DOMAIN buckets
               THEN [proc EXCEPT ![p].pc = "loadLastSeen",
                                 ![p].b = buckets[proc[p].key]]
               ELSE [proc EXCEPT ![p].pc = "lock"]
    /\ UNCHANGED <<rl, buckets, heap, writer, clock, log, overlap>>
    /\ UNCHANGED <<vars, poolVars, mwVars>>

\* LoadLastSeen with the refill test elapsed > rl.interval
LoadLastSeenLate(p) ==
    /\ proc[p].pc = "loadLastSeen"
    /\ LET lastSeen == heap[proc[p].b].lastSeen
           elapsed == proc[p].now - lastSeen
       IN  proc' = [proc EXCEPT ![p].lastSeen = lastSeen,
                                ![p].pc = IF elapsed > rl.interval
                                          THEN "storeTokens" ELSE "loadTokens"]
    /\ UNCHANGED <<rl, buckets, heap, writer, clock, log, overlap>>
    /\ UNCHANGED <<vars, poolVars, mwVars>>

\* lastSeen := atomic.LoadInt64(&b.lastSeen); elapsed := now - lastSeen
LoadLastSeen(p) ==
    /\ proc[p].pc = "loadLastSeen"
    /\ LET lastSeen == heap[proc[p].b].lastSeen
           elapsed == proc[p].now - lastSeen
       IN  proc' = [proc EXCEPT ![p].lastSeen = lastSeen,
                                ![p].pc = IF elapsed >= rl.interval
                                          THEN "storeTokens" ELSE "loadTokens"]
    /\ UNCHANGED <<rl, buckets, heap, writer, clock, log, overlap>>
    /\ UNCHANGED <<vars, poolVars, mwVars>>

\* atomic.StoreInt32(&b.tokens, rl.requests)
StoreTokens(p) ==
    /\ proc[p].pc = "storeTokens"
    /\ heap' = [heap EXCEPT ![proc[p].b].tokens = rl.requests]
    /\ proc' = [proc EXCEPT ![p].pc = "storeBurst"]
    /\ UNCHANGED <<rl, buckets, writer, clock, log, overlap>>
    /\ UNCHANGED <<vars, poolVars, mwVars>>

\* atomic.StoreInt32(&b.burst, rl.burst)
StoreBurst(p) ==
    /\ proc[p].pc = "storeBurst"
    /\ heap' = [heap EXCEPT ![proc[p].b].burst = rl.burst]
    /\ proc' = [proc EXCEPT ![p].pc = "storeLastSeen"]
    /\ UNCHANGED <<rl, buckets, writer, clock, log, overlap>>
    /\ UNCHANGED <<vars, poolVars, mwVars>>

\* atomic.StoreInt64(&b.lastSeen, now); return true
StoreLastSeen(p) ==
    /\ proc[p].pc = "storeLastSeen"
    /\ heap' = [heap EXCEPT ![proc[p].b].lastSeen = proc[p].now]
    /\ Return(p, TRUE, "refill")
    /\ UNCHANGED <<rl, buckets, clock, overlap>>
    /\ UNCHANGED <<vars, poolVars, mwVars>>

\* tokens := atomic.LoadInt32(&b.tokens); if tokens <= 0 { break }
LoadTokens(p) ==
    /\ proc[p].pc = "loadTokens"
    /\ LET tokens == heap[proc[p].b].tokens
       IN  proc' = [proc EXCEPT ![p].val = tokens,
                                ![p].pc = IF tokens <= 0 THEN "loadBurst"
                                          ELSE "casTokens"]
    /\ UNCHANGED <<rl, buckets, heap, writer, clock, log, overlap>>
    /\ UNCHANGED <<vars, poolVars, mwVars>>

\* if atomic.CompareAndSwapInt32(&b.tokens, tokens, tokens-1) { return true }
CasTokens(p) ==
    /\ proc[p].pc = "casTokens"
    /\ IF heap[proc[p].b].tokens = proc[p].val
       THEN /\ heap' = [heap EXCEPT ![proc[p].b].tokens = proc[p].val - 1]
            /\ Return(p, TRUE, "steady")
       ELSE /\ proc' = [proc EXCEPT ![p].pc = "loadTokens"]
            /\ UNCHANGED <<heap, writer, log>>
    /\ UNCHANGED <<rl, buckets, clock, overlap>>
    /\ UNCHANGED <<vars, poolVars, mwVars>>

\* burst := atomic.LoadInt32(&b.burst); if burst <= 0 { return false }
LoadBurst(p) ==
    /\ proc[p].pc = "loadBurst"
    /\ LET burst == heap[proc[p].b].burst
       IN  IF burst <= 0
           THEN Return(p, FALSE, "deny")
           ELSE /\ proc' = [proc EXCEPT ![p].val = burst, ![p].pc = "casBurst"]
                /\ UNCHANGED <<writer, log>>
    /\ UNCHANGED <<rl, buckets, heap, clock, overlap>>
    /\ UNCHANGED <<vars, poolVars, mwVars>>

\* if atomic.CompareAndSwapInt32(&b.burst, burst, burst-1) { return true }
CasBurst(p) ==
    /\ proc[p].pc = "casBurst"
    /\ IF heap[proc[p].b].burst = proc[p].val
       THEN /\ heap' = [heap EXCEPT ![proc[p].b].burst = proc[p].val - 1]
            /\ Return(p, TRUE, "burst")
       ELSE /\ proc' = [proc EXCEPT ![p].pc = "loadBurst"]
            /\ UNCHANGED <<heap, writer, log>>
    /\ UNCHANGED <<rl, buckets, clock, overlap>>
    /\ UNCHANGED <<vars, poolVars, mwVars>>

\* shard.Lock(); defer shard.Unlock()
Lock(p) ==
    /\ proc[p].pc = "lock"
    /\ writer = NoWriter
    /\ writer' = p
    /\ proc' = [proc EXCEPT ![p].pc = "doubleCheck", ![p].locked = TRUE]
    /\ UNCHANGED <<rl, buckets, heap, clock, log, overlap>>
    /\ UNCHANGED <<vars, poolVars, mwVars>>

\* if _, ok := shard.buckets[key]; ok { return rl.Allow(key) }: the nested
\* call samples the clock and starts at the read-locked lookup, with
\* shard.Lock still held by this caller
DoubleCheck(p) ==
    /\ proc[p].pc = "doubleCheck"
    /\ proc' = IF proc[p].key \in DOMAIN buckets
               THEN [proc EXCEPT ![p].pc = "lookup", ![p].now = clock]
               ELSE [proc EXCEPT ![p].pc = "create"]
    /\ UNCHANGED <<rl, buckets, heap, writer, clock, log, overlap>>
    /\ UNCHANGED <<vars, poolVars, mwVars>>

\* the cleanup with the threshold now - rl.interval
EvictedEarly(now) ==
    IF Cardinality(DOMAIN buckets) >= rl.maxSize
    THEN { k \in DOMAIN buckets : heap[buckets[k]].lastSeen < now - rl.interval }
    ELSE {}

\* the keys that the cleanup deletes when the shard is full
Evicted(now) ==
    IF Cardinality(DOMAIN buckets) >= rl.maxSize
    THEN { k \in DOMAIN buckets : heap[buckets[k]].lastSeen < now - rl.interval * 2 }
    ELSE {}

\* the cleanup of old entries, the new bucket, and return true
Create(p) ==
    /\ proc[p].pc = "create"
    /\ LET id == Cardinality(DOMAIN heap) + 1
           kept == [k \in DOMAIN buckets \ Evicted(proc[p].now) |-> buckets[k]]
       IN  /\ heap' = Put(heap, id, [tokens |-> rl.requests - 1, burst |-> rl.burst,
                                     lastSeen |-> proc[p].now])
           /\ buckets' = Put(kept, proc[p].key, id)
    /\ Return(p, TRUE, "create")
    /\ UNCHANGED <<rl, clock, overlap>>
    /\ UNCHANGED <<vars, poolVars, mwVars>>

\* time passes
Tick ==
    /\ clock < MaxTime
    /\ clock' = clock + 1
    /\ UNCHANGED <<rl, buckets, heap, writer, proc, log, overlap>>
    /\ UNCHANGED <<vars, poolVars, mwVars>>

\* the steps of a caller inside Allow
Step(p) ==
    \/ Lookup(p)
    \/ LoadLastSeen(p)
    \/ StoreTokens(p)
    \/ StoreBurst(p)
    \/ StoreLastSeen(p)
    \/ LoadTokens(p)
    \/ CasTokens(p)
    \/ LoadBurst(p)
    \/ CasBurst(p)
    \/ Lock(p)
    \/ DoubleCheck(p)
    \/ Create(p)

NextLimiter ==
    \/ \E p \in Procs, key \in Keys : AllowBegin(p, key)
    \/ \E p \in Procs : Step(p)
    \/ Tick

InitLimiter ==
    /\ NewMux
    /\ NewPool
    /\ NewServe(<<>>)
    /\ NewRateLimit(1, Interval)
    /\ \E requests \in RequestsValues, burst \in BurstValues :
          NewRateLimiter(requests, Interval, burst)

\* Concurrent callers of Allow on one limiter
SpecLimiter == InitLimiter /\ [][NextLimiter]_allVars

\* Callers that pass more distinct keys than the shard has room for
NextManyKeys ==
    \/ \E p \in Procs, key \in ManyKeys : AllowBegin(p, key)
    \/ \E p \in Procs : Step(p)
    \/ Tick

InitManyKeys ==
    /\ NewMux
    /\ NewPool
    /\ NewServe(<<>>)
    /\ NewRateLimit(1, Interval)
    /\ NewRateLimiter(1, Interval, 1)

SpecManyKeys == InitManyKeys /\ [][NextManyKeys]_allVars

\* One caller at a time, with more keys than the shard has room for and an
\* interval short enough for buckets to grow old
NextEviction ==
    \/ \E key \in ManyKeys : AllowBegin("p1", key)
    \/ Step("p1")
    \/ Tick

InitEviction ==
    /\ NewMux
    /\ NewPool
    /\ NewServe(<<>>)
    /\ NewRateLimit(1, Interval)
    /\ \E requests \in RequestsValues, burst \in BurstValues :
          NewRateLimiter(requests, ShortInterval, burst)

SpecEviction == InitEviction /\ [][NextEviction]_allVars

\* The same, with every goroutine that can take a step scheduled eventually
SpecLimiterFair ==
    /\ InitLimiter
    /\ [][NextLimiter]_allVars
    /\ \A p \in Procs : WF_allVars(Step(p))

----------------------------------------------------------------------------
(* Requests served concurrently: the pooled parameter maps and statusWriters *)

\* a request whose handler has been invoked and has not returned
Running(r) == reqs[r].pc \in {"handling", "abandoned"}

\* paramsPool.Put(params) without the clear before it
PutParamsUncleared(r) ==
    IF reqs[r].params = 0
    THEN UNCHANGED <<paramsPool, paramMaps>>
    ELSE /\ paramMaps' = paramMaps
         /\ paramsPool' = paramsPool \cup {reqs[r].params}

\* the deferred clear(params); paramsPool.Put(params) of ServeHTTP
PutParams(r) ==
    IF reqs[r].params = 0
    THEN UNCHANGED <<paramsPool, paramMaps>>
    ELSE /\ paramMaps' = [paramMaps EXCEPT ![reqs[r].params] = EmptyMap]
         /\ paramsPool' = paramsPool \cup {reqs[r].params}

\* the deferred responseWriterPool.Put(sw) of ServeHTTP
PutWriter(r) ==
    IF reqs[r].sw = 0
    THEN UNCHANGED responseWriterPool
    ELSE responseWriterPool' = responseWriterPool \cup {reqs[r].sw}

\* WriteHeader on the writer a handler of request r was invoked with: the
\* response itself on the fast path, otherwise the statusWriter, which
\* forwards the call to the response it is bound to at that moment
WriteHeader(r, status, from) ==
    LET sw == reqs[r].sw
        target == IF sw = 0 THEN r ELSE statusWriters[sw].ResponseWriter
    IN  /\ responses' = [responses EXCEPT ![target] =
                            @ \cup {[status |-> status, by |-> r, from |-> from]}]
        /\ statusWriters' = IF sw = 0 THEN statusWriters
                            ELSE [statusWriters EXCEPT ![sw].status = status]

\* ServeHTTP up to the invocation of the handler: a request that the static
\* index answers uses no statusWriter and no parameter map; otherwise
\* responseWriterPool.Get returns a statusWriter of the pool or a new one,
\* which is bound to the response, paramsPool.Get returns a map of the pool
\* or a new one, findHandler writes the bindings into it, and the map is put
\* in the request context when it has bindings
ServeBegin(r, method, path) ==
    LET res == ServeResult(method, path)
        fresh == Cardinality(DOMAIN paramMaps) + 1
        freshWriter == Cardinality(DOMAIN statusWriters) + 1
    IN  /\ reqs[r].pc = "idle"
        /\ reqs[r].runs < MaxRuns
        /\ mux' = [mux EXCEPT !["m"].cached = res.cached]
        /\ responses' = [responses EXCEPT ![r] = {}]
        /\ IF res.via = "static"
           THEN /\ reqs' = [reqs EXCEPT ![r] =
                               [pc |-> "handling", runs |-> @.runs + 1, path |-> path,
                                handler |-> res.handler, params |-> 0,
                                hasParams |-> FALSE, bound |-> EmptyMap,
                                sw |-> 0, wrote |-> FALSE]]
                /\ UNCHANGED <<paramsPool, paramMaps, responseWriterPool,
                               statusWriters>>
           ELSE \E id \in paramsPool \cup {fresh},
                   sw \in responseWriterPool \cup {freshWriter} :
                   /\ responseWriterPool' = responseWriterPool \ {sw}
                   /\ statusWriters' =
                         Put(statusWriters, sw, [ResponseWriter |-> r, status |-> 0])
                   /\ paramsPool' = paramsPool \ {id}
                   /\ paramMaps' =
                         IF id \in DOMAIN paramMaps
                         THEN [paramMaps EXCEPT ![id] = res.params @@ @]
                         ELSE Put(paramMaps, id, res.params)
                   /\ reqs' = [reqs EXCEPT ![r] =
                                  [pc |-> "handling", runs |-> @.runs + 1,
                                   path |-> path, handler |-> res.handler,
                                   params |-> id, hasParams |-> res.hasParams,
                                   bound |-> res.params,
                                   sw |-> sw, wrote |-> FALSE]]
        /\ UNCHANGED <<tree, staticHandlers, regs, last>>
        /\ UNCHANGED <<limiterVars, mwVars>>

\* the handler writes its status, while it runs
HandlerWrites(r) ==
    /\ Running(r)
    /\ ~reqs[r].wrote
    /\ WriteHeader(r, statusOf(reqs[r].handler), "handler")
    /\ reqs' = [reqs EXCEPT ![r].wrote = TRUE]
    /\ UNCHANGED <<paramsPool, paramMaps, responseWriterPool>>
    /\ UNCHANGED <<vars, limiterVars, mwVars>>

\* the handler returns, and ServeHTTP after it
HandlerReturns(r) ==
    /\ reqs[r].pc = "handling"
    /\ PutParams(r)
    /\ PutWriter(r)
    /\ reqs' = [reqs EXCEPT ![r] = [NoReq EXCEPT !.runs = reqs[r].runs]]
    /\ UNCHANGED <<statusWriters, responses>>
    /\ UNCHANGED <<vars, limiterVars, mwVars>>

\* Timeout: the deadline expires before the handler goroutine is done; the
\* middleware writes 504 and returns, and ServeHTTP returns with the handler
\* still running
TimeoutExpires(r) ==
    /\ reqs[r].pc = "handling"
    /\ contains(reqs[r].handler.chain, "Timeout")
    /\ WriteHeader(r, 504, "Timeout")
    /\ PutParams(r)
    /\ PutWriter(r)
    /\ reqs' = [reqs EXCEPT ![r].pc = "abandoned"]
    /\ UNCHANGED <<vars, limiterVars, mwVars>>

\* the handler goroutine that Timeout left behind returns
AbandonedReturns(r) ==
    /\ reqs[r].pc = "abandoned"
    /\ reqs' = [reqs EXCEPT ![r] = [NoReq EXCEPT !.runs = reqs[r].runs]]
    /\ UNCHANGED <<paramsPool, paramMaps, responseWriterPool, statusWriters,
                   responses>>
    /\ UNCHANGED <<vars, limiterVars, mwVars>>

NextPool ==
    \/ \E r \in Reqs, path \in PoolPaths : ServeBegin(r, MethodGet, path)
    \/ \E r \in Reqs : HandlerWrites(r)
    \/ \E r \in Reqs : HandlerReturns(r)
    \/ \E r \in Reqs : TimeoutExpires(r)
    \/ \E r \in Reqs : AbandonedReturns(r)

\* the router after mux.Use(middlewares...) and a Handle call for each route
RECURSIVE Registered(_, _, _, _)
Registered(t, mx, n, patterns) ==
    IF patterns = <<>> THEN [tree |-> t, mux |-> mx, regs |-> <<>>]
    ELSE LET w == wrap(mx, Plain(HandlerOf(n)))
             rest == Registered(
                        addRoutes(t, Head(patterns), handleMethods(<<MethodGet>>),
                                  w.handler),
                        [mx EXCEPT !.cached = w.cached], n + 1, Tail(patterns))
         IN  [rest EXCEPT !.regs =
                 <<[mux |-> "m", pattern |-> Head(patterns), handler |-> HandlerOf(n),
                    methods |-> <<MethodGet>>, middlewares |-> mx.middlewares]>> \o @]

InitPool ==
    /\ \E middlewares \in PoolMiddlewares :
          LET r == Registered((Root :> newRouteTree("")),
                              [newMux EXCEPT !.middlewares = middlewares],
                              1, PoolRoutes)
          IN  /\ tree = r.tree
              /\ mux = [id \in MuxIds |->
                          IF id = "m" THEN r.mux ELSE [newMux EXCEPT !.exists = FALSE]]
              /\ regs = r.regs
    /\ staticHandlers = EmptyMap
    /\ last = NoRequest
    /\ NewRateLimiter(1, Interval, 1)
    /\ NewPool
    /\ NewServe(<<>>)
    /\ NewRateLimit(1, Interval)

\* Concurrent requests to a router with its routes registered
SpecPool == InitPool /\ [][NextPool]_allVars

----------------------------------------------------------------------------
(* A request through Recovery, Logger and Timeout *)

Top(s) == s[Len(s)]

Pop(s) == SubSeq(s, 1, Len(s) - 1)

\* the process has not been terminated by a panic
Alive == exit # "crashed"

\* the place in the chain of the handler that a goroutine calls next
NextIndex(g) == gos[g].base + Len(gos[g].stack) + 1

\* Mux.ServeHTTP invokes the wrapped handler of the route, in the caller's
\* goroutine
Serve ==
    /\ exit = "none"
    /\ gos' = [gos EXCEPT !["main"].mode = "call"]
    /\ exit' = "running"
    /\ UNCHANGED <<mwChain, writes, ctx, doneClosed, raised, events>>
    /\ UNCHANGED <<vars, limiterVars, poolVars, rateVars>>

\* next.ServeHTTP(w, r) in Recovery (after its defer) and in Logger, and the
\* call of the route's handler at the end of the chain
Enter(g) ==
    /\ Alive
    /\ gos[g].mode = "call"
    /\ IF NextIndex(g) > Len(mwChain)
       THEN gos' = [gos EXCEPT ![g].mode = "handler",
                               ![g].stack = Append(@, "handler")]
       ELSE /\ mwChain[NextIndex(g)] \in {"Recovery", "Logger"}
            /\ gos' = [gos EXCEPT ![g].stack = Append(@, mwChain[NextIndex(g)])]
    /\ UNCHANGED <<mwChain, writes, ctx, doneClosed, exit, raised, events>>
    /\ UNCHANGED <<vars, limiterVars, poolVars, rateVars>>

\* Timeout: context.WithTimeout, the goroutine that runs next.ServeHTTP and
\* closes done, and the caller waiting in the select
TimeoutCalled(g) ==
    /\ Alive
    /\ gos[g].mode = "call"
    /\ g = "main"
    /\ NextIndex(g) <= Len(mwChain)
    /\ mwChain[NextIndex(g)] = "Timeout"
    /\ gos' = [gos EXCEPT ![g].mode = "select",
                          ![g].stack = Append(@, "Timeout"),
                          !["worker"] = [mode |-> "call", stack |-> <<>>,
                                         base |-> NextIndex(g)]]
    /\ ctx' = "live"
    /\ doneClosed' = FALSE
    /\ UNCHANGED <<mwChain, writes, exit, raised, events>>
    /\ UNCHANGED <<vars, limiterVars, poolVars, rateVars>>

\* SelectCtxDone without the WriteHeader call
SelectCtxDoneSilent(g) ==
    /\ Alive
    /\ gos[g].mode = "wokenCtx"
    /\ gos' = [gos EXCEPT ![g].mode = "return", ![g].stack = Pop(@)]
    /\ events' = Append(events, "timeoutReturns")
    /\ UNCHANGED <<mwChain, writes, ctx, doneClosed, exit, raised>>
    /\ UNCHANGED <<vars, limiterVars, poolVars, rateVars>>

\* case <-ctx.Done(): w.WriteHeader(http.StatusGatewayTimeout); return
SelectCtxDone(g) ==
    /\ Alive
    /\ gos[g].mode = "wokenCtx"
    /\ writes' = Append(writes, 504)
    /\ gos' = [gos EXCEPT ![g].mode = "return", ![g].stack = Pop(@)]
    /\ events' = Append(events, "timeoutReturns")
    /\ UNCHANGED <<mwChain, ctx, doneClosed, exit, raised>>
    /\ UNCHANGED <<vars, limiterVars, poolVars, rateVars>>

\* case <-done: return; the deferred cancel ends the context
SelectDone(g) ==
    /\ Alive
    /\ gos[g].mode = "wokenDone"
    /\ gos' = [gos EXCEPT ![g].mode = "return", ![g].stack = Pop(@)]
    /\ ctx' = IF ctx = "live" THEN "cancelled" ELSE ctx
    /\ events' = Append(events, "timeoutReturns")
    /\ UNCHANGED <<mwChain, writes, doneClosed, exit, raised>>
    /\ UNCHANGED <<vars, limiterVars, poolVars, rateVars>>

\* the deadline of the context passes: ctx.Done is closed, and a caller
\* waiting in the select takes that case
DeadlineExpires ==
    /\ Alive
    /\ ctx = "live"
    /\ ctx' = "expired"
    /\ gos' = IF gos["main"].mode = "select"
              THEN [gos EXCEPT !["main"].mode = "wokenCtx"]
              ELSE gos
    /\ events' = Append(events, "deadline")
    /\ UNCHANGED <<mwChain, writes, doneClosed, exit, raised>>
    /\ UNCHANGED <<vars, limiterVars, poolVars, rateVars>>

\* the route's handler returns, having written a status or nothing
HandlerDone(g, status) ==
    /\ Alive
    /\ gos[g].mode = "handler"
    /\ writes' = IF status = 0 THEN writes ELSE Append(writes, status)
    /\ gos' = [gos EXCEPT ![g].mode = "return", ![g].stack = Pop(@)]
    /\ events' = Append(events, "handlerReturns")
    /\ UNCHANGED <<mwChain, ctx, doneClosed, exit, raised>>
    /\ UNCHANGED <<vars, limiterVars, poolVars, rateVars>>

\* the route's handler panics
HandlerPanics(g) ==
    /\ Alive
    /\ gos[g].mode = "handler"
    /\ gos' = [gos EXCEPT ![g].mode = "panic", ![g].stack = Pop(@)]
    /\ raised' = TRUE
    /\ events' = Append(events, "panic")
    /\ UNCHANGED <<mwChain, writes, ctx, doneClosed, exit>>
    /\ UNCHANGED <<vars, limiterVars, poolVars, rateVars>>

\* next.ServeHTTP has returned: Logger prints its line and returns, Recovery
\* returns with nothing to recover
Leave(g) ==
    /\ Alive
    /\ gos[g].mode = "return"
    /\ gos[g].stack # <<>>
    /\ gos' = [gos EXCEPT ![g].stack = Pop(@)]
    /\ UNCHANGED <<mwChain, writes, ctx, doneClosed, exit, raised, events>>
    /\ UNCHANGED <<vars, limiterVars, poolVars, rateVars>>

\* a panic passes through a frame of its goroutine: Logger is left without
\* printing; the deferred function of Recovery recovers, writes 500 with
\* http.Error, and Recovery returns
Unwind(g) ==
    /\ Alive
    /\ gos[g].mode = "panic"
    /\ gos[g].stack # <<>>
    /\ IF Top(gos[g].stack) = "Recovery"
       THEN /\ gos' = [gos EXCEPT ![g].mode = "return", ![g].stack = Pop(@)]
            /\ writes' = Append(writes, 500)
            /\ events' = Append(events, "recovered")
       ELSE /\ gos' = [gos EXCEPT ![g].stack = Pop(@)]
            /\ UNCHANGED <<writes, events>>
    /\ UNCHANGED <<mwChain, ctx, doneClosed, exit, raised>>
    /\ UNCHANGED <<vars, limiterVars, poolVars, rateVars>>

\* the function of a goroutine returns: in the caller's goroutine ServeHTTP
\* returns; the goroutine of Timeout closes done, and a caller waiting in
\* the select takes that case
Finish(g) ==
    /\ Alive
    /\ gos[g].mode = "return"
    /\ gos[g].stack = <<>>
    /\ IF g = "main"
       THEN /\ gos' = [gos EXCEPT ![g].mode = "done"]
            /\ exit' = "returned"
            /\ UNCHANGED <<doneClosed, events>>
       ELSE /\ gos' = [gos EXCEPT ![g].mode = "done",
                                  !["main"].mode = IF @ = "select" THEN "wokenDone"
                                                   ELSE @]
            /\ doneClosed' = TRUE
            /\ events' = Append(events, "done")
            /\ UNCHANGED exit
    /\ UNCHANGED <<mwChain, writes, ctx, raised>>
    /\ UNCHANGED <<vars, limiterVars, poolVars, rateVars>>

\* a panic reaches the bottom of its goroutine's stack: in the caller's
\* goroutine it leaves ServeHTTP; in the goroutine of Timeout nothing can
\* recover it and the runtime terminates the process
Escape(g) ==
    /\ Alive
    /\ gos[g].mode = "panic"
    /\ gos[g].stack = <<>>
    /\ gos' = [gos EXCEPT ![g].mode = "done"]
    /\ exit' = IF g = "main" THEN "escaped" ELSE "crashed"
    /\ UNCHANGED <<mwChain, writes, ctx, doneClosed, raised, events>>
    /\ UNCHANGED <<vars, limiterVars, poolVars, rateVars>>

NextChain ==
    \/ Serve
    \/ \E g \in Goroutines : Enter(g)
    \/ \E g \in Goroutines : TimeoutCalled(g)
    \/ \E g \in Goroutines : SelectCtxDone(g)
    \/ \E g \in Goroutines : SelectDone(g)
    \/ DeadlineExpires
    \/ \E g \in Goroutines, status \in HandlerStatuses : HandlerDone(g, status)
    \/ \E g \in Goroutines : HandlerPanics(g)
    \/ \E g \in Goroutines : Leave(g)
    \/ \E g \in Goroutines : Unwind(g)
    \/ \E g \in Goroutines : Finish(g)
    \/ \E g \in Goroutines : Escape(g)

InitChain ==
    /\ NewMux
    /\ NewRateLimiter(1, Interval, 1)
    /\ NewPool
    /\ \E middlewares \in ChainValues : NewServe(middlewares)
    /\ NewRateLimit(1, Interval)

\* One request through a chain of middlewares
SpecChain == InitChain /\ [][NextChain]_allVars

----------------------------------------------------------------------------
(* The RateLimit middleware *)

min(a, b) == IF a < b THEN a ELSE b

\* the requests that have entered the middleware
RateStarted ==
    Len(decisions) + Cardinality({ r \in RateReqs : rproc[r].pc # "idle" })

\* a request enters the middleware: its client key is read from the headers
RateBegin(r, ip) ==
    /\ rproc[r].pc = "idle"
    /\ RateStarted < MaxCalls
    /\ rproc' = [rproc EXCEPT ![r] = [pc |-> "load", ip |-> ip, b |-> 0]]
    /\ UNCHANGED <<rate, ipBuckets, bheap, rateClock, decisions>>
    /\ UNCHANGED <<vars, limiterVars, poolVars, chainVars>>

\* if v, ok := buckets.Load(ip); ok { b = v.(*bucket) }
RateLoad(r) ==
    /\ rproc[r].pc = "load"
    /\ rproc' = IF rproc[r].ip \in DOMAIN ipBuckets
                THEN [rproc EXCEPT ![r].pc = "lock", ![r].b = ipBuckets[rproc[r].ip]]
                ELSE [rproc EXCEPT ![r].pc = "store"]
    /\ UNCHANGED <<rate, ipBuckets, bheap, rateClock, decisions>>
    /\ UNCHANGED <<vars, limiterVars, poolVars, chainVars>>

\* b = &bucket{tokens: requests}; buckets.Store(ip, b)
RateStore(r) ==
    /\ rproc[r].pc = "store"
    /\ LET id == Cardinality(DOMAIN bheap) + 1
       IN  /\ bheap' = Put(bheap, id, [tokens |-> rate.requests,
                                       lastSeen |-> ZeroTime, mu |-> ""])
           /\ ipBuckets' = Put(ipBuckets, rproc[r].ip, id)
           /\ rproc' = [rproc EXCEPT ![r].pc = "lock", ![r].b = id]
    /\ UNCHANGED <<rate, rateClock, decisions>>
    /\ UNCHANGED <<vars, limiterVars, poolVars, chainVars>>

\* b.mu.Lock; the tokens are replenished for the time passed and lastSeen is
\* set; without a token the request is answered 429 and the deferred Unlock
\* runs; with one, the token is taken and next.ServeHTTP is called with the
\* mutex held
RateCheck(r) ==
    /\ rproc[r].pc = "lock"
    /\ bheap[rproc[r].b].mu = ""
    /\ LET b == rproc[r].b
           elapsed == rateClock - bheap[b].lastSeen
           newTokens == (elapsed * rate.requests) \div rate.duration
           tokens == min(rate.requests, bheap[b].tokens + newTokens)
       IN  IF tokens <= 0
           THEN /\ bheap' = [bheap EXCEPT ![b].tokens = tokens,
                                          ![b].lastSeen = rateClock]
                /\ rproc' = [rproc EXCEPT ![r] = NoRateReq]
                /\ decisions' = Append(decisions, [ip |-> rproc[r].ip, at |-> rateClock,
                                                   forwarded |-> FALSE])
           ELSE /\ bheap' = [bheap EXCEPT ![b].tokens = tokens - 1,
                                          ![b].lastSeen = rateClock,
                                          ![b].mu = r]
                /\ rproc' = [rproc EXCEPT ![r].pc = "next"]
                /\ decisions' = Append(decisions, [ip |-> rproc[r].ip, at |-> rateClock,
                                                   forwarded |-> TRUE])
    /\ UNCHANGED <<rate, ipBuckets, rateClock>>
    /\ UNCHANGED <<vars, limiterVars, poolVars, chainVars>>

\* next.ServeHTTP returns, and the deferred b.mu.Unlock runs
RateNextReturns(r) ==
    /\ rproc[r].pc = "next"
    /\ bheap' = [bheap EXCEPT ![rproc[r].b].mu = ""]
    /\ rproc' = [rproc EXCEPT ![r] = NoRateReq]
    /\ UNCHANGED <<rate, ipBuckets, rateClock, decisions>>
    /\ UNCHANGED <<vars, limiterVars, poolVars, chainVars>>

\* the cleanup goroutine, once its ticker has fired: a bucket not seen for
\* more than twice the duration is deleted from the map
RateCleanup(ip) ==
    /\ rateClock >= rate.duration
    /\ ip \in DOMAIN ipBuckets
    /\ bheap[ipBuckets[ip]].mu = ""
    /\ rateClock - bheap[ipBuckets[ip]].lastSeen > rate.duration * 2
    /\ ipBuckets' = [k \in DOMAIN ipBuckets \ {ip} |-> ipBuckets[k]]
    /\ UNCHANGED <<rate, bheap, rproc, rateClock, decisions>>
    /\ UNCHANGED <<vars, limiterVars, poolVars, chainVars>>

\* time passes
RateTick ==
    /\ rateClock < MaxRateTime
    /\ rateClock' = rateClock + 1
    /\ UNCHANGED <<rate, ipBuckets, bheap, rproc, decisions>>
    /\ UNCHANGED <<vars, limiterVars, poolVars, chainVars>>

NextRate ==
    \/ \E r \in RateReqs, ip \in ClientKeys : RateBegin(r, ip)
    \/ \E r \in RateReqs : RateLoad(r)
    \/ \E r \in RateReqs : RateStore(r)
    \/ \E r \in RateReqs : RateCheck(r)
    \/ \E r \in RateReqs : RateNextReturns(r)
    \/ \E ip \in ClientKeys : RateCleanup(ip)
    \/ RateTick

InitRate ==
    /\ NewMux
    /\ NewRateLimiter(1, Interval, 1)
    /\ NewPool
    /\ NewServe(<<>>)
    /\ \E requests \in RateRequests : NewRateLimit(requests, Interval)

\* Concurrent requests through one RateLimit middleware
SpecRate == InitRate /\ [][NextRate]_allVars

----------------------------------------------------------------------------
(* What the claims speak about *)

Served == last.op = "ServeHTTP"

\* The methods a Handle call is documented to register: those passed (all of
\* them when none is passed), and HEAD whenever GET is among them
ClaimedMethods(reg) ==
    LET ms == IF reg.methods = <<>>
              THEN { AllMethods[i] : i \in 1..Len(AllMethods) }
              ELSE { reg.methods[i] : i \in 1..Len(reg.methods) }
    IN  ms \cup (IF MethodGet \in ms THEN {MethodHead} ELSE {})

IsCapture(segment) == segment \in DOMAIN ParamSyntax

IsLiteralPattern(pattern) ==
    /\ pattern # <<>>
    /\ \A k \in 1..Len(pattern) :
          ~IsCapture(pattern[k]) /\ pattern[k] # "..." /\ pattern[k] # ""

HasCapture(pattern) == \E k \in 1..Len(pattern) : IsCapture(pattern[k])

HasValidator(pattern) ==
    \E k \in 1..Len(pattern) : IsCapture(pattern[k]) /\ ParamSyntax[pattern[k]].hasRx

\* the path has one segment per pattern segment and equals the pattern in
\* every literal segment
SameShape(pattern, path) ==
    /\ Len(pattern) = Len(path)
    /\ \A k \in 1..Len(pattern) :
          /\ pattern[k] # "..."
          /\ path[k] # ""
          /\ ~IsCapture(pattern[k]) => pattern[k] = path[k]

\* every validated capture of the pattern accepts its segment of the path
ValidatorsAccept(pattern, path) ==
    \A k \in 1..Len(pattern) :
        (IsCapture(pattern[k]) /\ ParamSyntax[pattern[k]].hasRx)
            => MatchString(ParamSyntax[pattern[k]].rxPattern, path[k])

PatternMatches(pattern, path) ==
    SameShape(pattern, path) /\ ValidatorsAccept(pattern, path)

\* regs[i] is the only registration whose pattern has the shape of the path
OnlyRouteFor(i, path) ==
    /\ SameShape(regs[i].pattern, path)
    /\ \A j \in 1..Len(regs) : j # i => ~SameShape(regs[j].pattern, path)

CapturesBound(pattern, path) ==
    \A k \in 1..Len(pattern) :
        IsCapture(pattern[k]) => Param(last, ParamSyntax[pattern[k]].paramName) = path[k]

IsWildcardPattern(pattern) == pattern # <<>> /\ pattern[Len(pattern)] = "..."

RECURSIVE Join(_)
Join(segments) ==
    IF segments = <<>> THEN ""
    ELSE IF Len(segments) = 1 THEN segments[1]
    ELSE segments[1] \o "/" \o Join(Tail(segments))

\* the path extends the prefix of the wildcard pattern
UnderWildcard(pattern, path) ==
    /\ IsWildcardPattern(pattern)
    /\ Len(path) >= Len(pattern)
    /\ SubSeq(path, 1, Len(pattern) - 1) = SubSeq(pattern, 1, Len(pattern) - 1)

\* what is left of the path after the prefix of the wildcard pattern
Remainder(pattern, path) ==
    LET rest == SubSeq(path, Len(pattern), Len(path))
    IN  IF rest = <<"">> THEN <<>> ELSE rest

----------------------------------------------------------------------------
(* Claims *)

\* C1: when only distinct fully-literal patterns are registered, a request
\* (M, P) for a registered pattern P and one of its methods (or the implied
\* HEAD) invokes the handler that was passed to Handle for P, and not the
\* handler of another pattern.
C1_LiteralRouteInvokesOwnHandler ==
    ( /\ Served
      /\ \A i \in 1..Len(regs) : IsLiteralPattern(regs[i].pattern)
      /\ \A i, j \in 1..Len(regs) : i # j => regs[i].pattern # regs[j].pattern )
    => \A i \in 1..Len(regs) :
          (regs[i].pattern = last.path /\ last.method \in ClaimedMethods(regs[i]))
             => /\ last.handler.h = regs[i].handler
                /\ \A j \in 1..Len(regs) : j # i => last.handler.h # regs[j].handler

\* C2: a request whose path has one segment per segment of a route with named
\* captures invokes that route's handler with every capture name bound to its
\* path segment, and Param returns "" for a name that is not bound.
C2_CapturesBoundToSegments ==
    \A i \in 1..Len(regs) :
        ( /\ Served
          /\ HasCapture(regs[i].pattern)
          /\ OnlyRouteFor(i, last.path)
          /\ ValidatorsAccept(regs[i].pattern, last.path)
          /\ last.method \in ClaimedMethods(regs[i]) )
        => /\ last.handler.h = regs[i].handler
           /\ CapturesBound(regs[i].pattern, last.path)
           /\ Param(last, "unbound") = ""

\* C3: for a route with a validated capture, a segment that matches the
\* validator resolves to the route with the capture bound, and a segment that
\* does not match is answered by the NotFound fallback (404) without the
\* route handler being invoked.
C3_ValidatorDecidesResolution ==
    \A i \in 1..Len(regs) :
        ( /\ Served
          /\ Len(regs) = 1
          /\ HasValidator(regs[i].pattern)
          /\ OnlyRouteFor(i, last.path)
          /\ last.method \in ClaimedMethods(regs[i]) )
        => IF ValidatorsAccept(regs[i].pattern, last.path)
           THEN CapturesBound(regs[i].pattern, last.path)
           ELSE /\ last.handler.h = "NotFound"
                /\ statusOf(last.handler) = 404
                /\ last.handler.h # regs[i].handler

\* C4: for a wildcard route P/..., a request that extends P by one or more
\* segments invokes the route's handler with "..." bound to the remaining
\* segments joined by '/', and the request P/ invokes the same handler with an
\* empty capture.
C4_WildcardCapturesRemainder ==
    \A i \in 1..Len(regs) :
        ( /\ Served
          /\ Len(regs) = 1
          /\ UnderWildcard(regs[i].pattern, last.path)
          /\ last.method \in ClaimedMethods(regs[i]) )
        => /\ last.handler.h = regs[i].handler
           /\ Param(last, "...") = Join(Remainder(regs[i].pattern, last.path))

\* C5: when /users/new and a parameter route /users/:id are both registered,
\* in either order, a request for /users/new invokes the handler of the
\* literal route and never the handler of the parameter route.
C5_LiteralBeforeParameter ==
    \A i, j \in 1..Len(regs) :
        ( /\ Served
          /\ IsLiteralPattern(regs[i].pattern)
          /\ HasCapture(regs[j].pattern)
          /\ regs[i].pattern = last.path
          /\ SameShape(regs[j].pattern, last.path)
          /\ last.method \in ClaimedMethods(regs[i]) )
        => /\ last.handler.h = regs[i].handler
           /\ last.handler.h # regs[j].handler

\* the methods registered for a path by the Handle calls made for it
MethodsRegisteredFor(path) ==
    UNION { ClaimedMethods(regs[i]) : i \in { k \in 1..Len(regs) : regs[k].pattern = path } }

AllowSet == { last.allow[k] : k \in 1..Len(last.allow) }

\* C6: a request for a registered literal route with a method (other than
\* OPTIONS) that has no handler there is answered by the MethodNotAllowed
\* fallback (405) with an Allow header that lists exactly the registered
\* methods and OPTIONS.
C6_MethodMismatchAnswered405 ==
    ( /\ Served
      /\ Len(regs) = 1
      /\ IsLiteralPattern(last.path)
      /\ MethodsRegisteredFor(last.path) # {}
      /\ last.method \notin MethodsRegisteredFor(last.path)
      /\ last.method # MethodOptions )
    => /\ last.handler.h = "MethodNotAllowed"
       /\ statusOf(last.handler) = 405
       /\ AllowSet = MethodsRegisteredFor(last.path) \cup {MethodOptions}

\* C7: an OPTIONS request for a registered literal route that has no OPTIONS
\* handler is answered by the Options fallback (204), not by a route handler,
\* with an Allow header that lists the registered methods and OPTIONS.
C7_OptionsAnswered204 ==
    ( /\ Served
      /\ Len(regs) = 1
      /\ IsLiteralPattern(last.path)
      /\ MethodsRegisteredFor(last.path) # {}
      /\ MethodOptions \notin MethodsRegisteredFor(last.path)
      /\ last.method = MethodOptions )
    => /\ last.handler.h = "Options"
       /\ statusOf(last.handler) = 204
       /\ AllowSet = MethodsRegisteredFor(last.path) \cup {MethodOptions}

\* C8: a request whose path does not resolve to a node with a dispatch table
\* is answered by the NotFound fallback (404), and no handler that was passed
\* to Handle is invoked (stated for routers without a route for "/").
C8_UnresolvedAnsweredNotFound ==
    ( /\ Served
      /\ last.via = "notfound"
      /\ \A i \in 1..Len(regs) : regs[i].pattern # <<>> )
    => /\ last.handler.h = "NotFound"
       /\ statusOf(last.handler) = 404
       /\ \A i \in 1..Len(regs) : last.handler.h # regs[i].handler

\* a path that a request for the pattern can use
PathFor(pattern) ==
    [k \in 1..Len(pattern) |-> IF IsCapture(pattern[k]) THEN "123" ELSE pattern[k]]

\* C9: after Handle(pattern, h, methods...) with GET and without HEAD among
\* the methods, a HEAD request for the pattern invokes the same wrapped
\* handler as a GET request; a pattern registered without GET and HEAD has no
\* HEAD handler (stated for the latest Handle call, and for patterns other
\* than "/" and wildcards).
C9_HeadFollowsGet ==
    ( /\ regs # <<>>
      /\ regs[Len(regs)].pattern # <<>>
      /\ ~IsWildcardPattern(regs[Len(regs)].pattern) ) =>
    LET reg == regs[Len(regs)]
        path == PathFor(reg.pattern)
        ms == { reg.methods[k] : k \in 1..Len(reg.methods) }
    IN  /\ (MethodGet \in ms /\ MethodHead \notin ms)
              => ServeResult(MethodHead, path).handler = ServeResult(MethodGet, path).handler
        /\ (MethodHead \notin MethodsRegisteredFor(reg.pattern))
              => ServeResult(MethodHead, path).via # "route"

\* C10: a handler registered with the pattern "/" is reached by the request
\* for "/": resolution finds the root route and invokes its handler.
C10_RootRouteReachable ==
    \A i \in 1..Len(regs) :
        ( /\ Served
          /\ Len(regs) = 1
          /\ regs[i].pattern = <<>>
          /\ last.path = <<>>
          /\ last.method \in ClaimedMethods(regs[i]) )
        => /\ last.via \in {"route", "static"}
           /\ last.handler.h = regs[i].handler

\* What runs, in order, when a wrapped handler serves one request: every
\* middleware of the chain runs its code before calling the next handler and
\* its code after that call returns
RECURSIVE Execute(_)
Execute(w) ==
    IF w.chain = <<>> THEN << <<w.h, "handler">> >>
    ELSE << <<Head(w.chain), "before">> >>
            \o Execute([chain |-> Tail(w.chain), h |-> w.h])
            \o << <<Head(w.chain), "after">> >>

\* regs[i] is the only Handle call made for its pattern
OnlyHandleFor(i) ==
    \A j \in 1..Len(regs) : j # i => regs[j].pattern # regs[i].pattern

\* C11: for middlewares m1..mk passed to Use before a route is registered, a
\* request to that route runs the code of m1..mk before the handler in that
\* order, then the route's handler, then the code after it in the order
\* mk..m1, and every middleware runs exactly once.
C11_OnionOrdering ==
    \A i \in 1..Len(regs) :
        ( /\ Served
          /\ regs[i].mux = "m"
          /\ regs[i].middlewares # <<>>
          /\ IsLiteralPattern(regs[i].pattern)
          /\ OnlyHandleFor(i)
          /\ last.path = regs[i].pattern
          /\ last.method \in ClaimedMethods(regs[i]) )
        => LET mws == regs[i].middlewares
               k == Len(mws)
               run == Execute(last.handler)
           IN  /\ Len(run) = 2 * k + 1
               /\ \A j \in 1..k : /\ run[j] = <<mws[j], "before">>
                                  /\ run[2 * k + 2 - j] = <<mws[j], "after">>
               /\ run[k + 1] = <<regs[i].handler, "handler">>

\* The tree node at which a pattern without wildcard is registered
NodeOf(pattern) ==
    LET segments == SplitPattern(pattern)
    IN  [k \in 1..Len(segments) |-> ChildKey(segments[k])]

\* C12: a group router gets a copy of the parent's middleware list when it is
\* created and shares the tree; Use on the parent afterwards leaves the
\* group's list and the registered routes alone, Use on the group leaves the
\* parent's list and the registered routes alone, a route registered on the
\* group is the route's handler wrapped by the group's list (the parent's
\* middlewares at creation, then the group's own), and a route registered on
\* the parent is wrapped by the parent's list only.
C12_GroupOwnsMiddlewareCopy ==
    [][ /\ (~mux["g"].exists /\ mux'["g"].exists)
            => (mux'["g"].middlewares = mux["m"].middlewares /\ tree' = tree)
        /\ (mux["g"].exists /\ mux'["m"].middlewares # mux["m"].middlewares)
            => (mux'["g"].middlewares = mux["g"].middlewares /\ tree' = tree)
        /\ (mux["g"].exists /\ mux'["g"].middlewares # mux["g"].middlewares)
            => (mux'["m"].middlewares = mux["m"].middlewares /\ tree' = tree)
        /\ (Len(regs') > Len(regs))
            => LET reg == regs'[Len(regs')]
                   handlers == tree'[NodeOf(reg.pattern)].methods.handlers
               IN  \A method \in ClaimedMethods(reg) :
                      IF reg.mux = "g"
                      THEN handlers[method] =
                              [chain |-> mux["g"].middlewares, h |-> reg.handler]
                      ELSE handlers[method].chain = mux["m"].middlewares
      ]_vars

\* C13: for a limiter built with steadyRequests N and burst B and a key never
\* seen before, of the consecutive (not overlapping) Allow calls made within
\* one interval of the first call exactly the first N+B return true and the
\* next returns false, the first N being served from the steady pool and the
\* following B from the burst pool.
C13_ExactlySteadyPlusBurst ==
    ~overlap =>
       \A n \in 1..Len(log) :
          (log[n].now - log[1].now < rl.interval)
             => /\ log[n].result = (n <= rl.requests + rl.burst)
                /\ (n <= rl.requests) => log[n].kind \in {"create", "steady"}
                /\ (rl.requests < n /\ n <= rl.requests + rl.burst)
                      => log[n].kind = "burst"

\* the calls that returned true and ran, from the clock sample to the
\* return, within one interval from the time t
AdmittedFrom(t) ==
    { n \in 1..Len(log) :
        log[n].result /\ t <= log[n].now /\ log[n].end < t + rl.interval }

\* C14: under every interleaving of concurrent Allow calls for one key, the
\* calls that return true within one interval, counted from the creation of
\* the bucket or from a refill, are never more than N+B (stated for N >= 1).
C14_NoDoubleSpend ==
    (rl.requests >= 1) =>
       \A n \in 1..Len(log) :
          (log[n].kind \in {"create", "refill"})
             => Cardinality(AdmittedFrom(log[n].now)) <= rl.requests + rl.burst

\* no call of Allow is running, and no two calls ever ran at the same time
Sequential == ~overlap /\ \A p \in Procs : proc[p].pc = "idle"

\* the calls made for a key, and the latest of them that created or refilled
\* its bucket
CallsFor(key) == { n \in 1..Len(log) : log[n].key = key }

LastReset(key) ==
    CHOOSE r \in CallsFor(key) :
        /\ log[r].kind \in {"create", "refill"}
        /\ \A n \in CallsFor(key) : log[n].kind \in {"create", "refill"} => n <= r

\* C15: every Allow call that returns true has taken exactly one token from
\* the key's pools (steady first, burst once steady is exhausted) and every
\* call that returns false has taken none, on the creation path, the refill
\* path and the fast path alike: after consecutive calls, the tokens missing
\* from the pools are as many as the calls that returned true since (and
\* including) the call that created or last refilled the bucket (stated for
\* N >= 1).
C15_TrueIffTokenTaken ==
    (Sequential /\ rl.requests >= 1) =>
       \A key \in DOMAIN buckets :
          LET b == heap[buckets[key]]
              admitted == { n \in CallsFor(key) : n >= LastReset(key) /\ log[n].result }
          IN  /\ (rl.requests - b.tokens) + (rl.burst - b.burst) = Cardinality(admitted)
              /\ (b.burst < rl.burst) => (b.tokens <= 0)

\* the time at which the bucket of the n-th call was created or last refilled
\* before that call
LastSeenBefore(n) ==
    LET r == CHOOSE r \in 1..(n - 1) :
                /\ log[r].key = log[n].key
                /\ log[r].kind \in {"create", "refill"}
                /\ \A k \in (r + 1)..(n - 1) :
                      log[k].key = log[n].key => log[k].kind \notin {"create", "refill"}
    IN  log[r].now

\* the n-th call found the pools of its key exhausted: the call before it
\* was for the same key and was refused
FoundExhausted(n) ==
    n >= 2 /\ log[n - 1].key = log[n].key /\ ~log[n - 1].result

\* C16: with consecutive calls, an Allow for a key whose pools are exhausted
\* returns true once a full interval has elapsed since the bucket's last-seen
\* time, and leaves both pools at their ceilings and the last-seen time at the
\* time of the call; before a full interval has elapsed it returns false.
C16_RefillAfterInterval ==
    Sequential =>
       \A n \in 1..Len(log) :
          FoundExhausted(n) =>
             IF log[n].now - LastSeenBefore(n) >= rl.interval
             THEN /\ log[n].result
                  /\ (n = Len(log)) =>
                        /\ heap[buckets[log[n].key]].tokens = rl.requests
                        /\ heap[buckets[log[n].key]].burst = rl.burst
                        /\ heap[buckets[log[n].key]].lastSeen = log[n].now
             ELSE ~log[n].result

C16_Witness ==
    /\ Sequential
    /\ Len(log) >= 3
    /\ FoundExhausted(Len(log))
    /\ log[Len(log)].now - LastSeenBefore(Len(log)) >= rl.interval
    /\ log[Len(log)].result
    /\ rl.requests + rl.burst >= 2

\* C17: every Allow call returns: under every interleaving, also when two
\* callers race to create the bucket of an absent key and the loser finds
\* the bucket present after taking the shard's exclusive lock, a caller that
\* has entered Allow eventually leaves it, and the lock is eventually free.
C17_AllowReturns ==
    /\ \A p \in Procs : (proc[p].pc # "idle") ~> (proc[p].pc = "idle")
    /\ (writer # NoWriter) ~> (writer = NoWriter)

\* a step that serves a request or inspects its response: no Handle, Use,
\* Group or Optimize
RequestStep ==
    /\ regs' = regs
    /\ \A id \in MuxIds : /\ mux'[id].exists = mux[id].exists
                          /\ mux'[id].middlewares = mux[id].middlewares
                          /\ mux'[id].optimized = mux[id].optimized

\* C18: with no Handle, Use, Group or Optimize in between, resolving the same
\* (method, path) again, directly or after other requests, invokes the same
\* handler or fallback with the same parameter bindings: the request just
\* served gets the same answer when it is repeated, and serving a request
\* changes the answer to no (method, path), unless that is a fallback answer
\* on a router that has not wrapped anything since its last Use (so that no
\* such request has been resolved yet).  The answers are a function of the
\* tree, the static index and the routers, so they are compared only when
\* the step changes one of these.
C18_ResolutionIdempotent ==
    [][ RequestStep =>
          /\ \A method \in RequestMethods, path \in GroupRequestPaths :
                (last'.op = "ServeHTTP" /\ last'.method = method /\ last'.path = path)
                   => LET again == ServeResult(method, path)'
                      IN  /\ again.handler = last'.handler
                          /\ again.params = last'.params
                          /\ again.via = last'.via
          /\ \/ UNCHANGED <<tree, staticHandlers, mux>>
             \/ \A method \in RequestMethods, path \in GroupRequestPaths :
                   LET before == ServeResult(method, path)
                       after == ServeResult(method, path)'
                   IN  \/ /\ after.handler = before.handler
                          /\ after.params = before.params
                          /\ after.via = before.via
                       \/ /\ mux["m"].cached = NilHandler
                          /\ before.via \notin {"route", "static"}
      ]_allVars

\* an OPTIONS request is answered after a not-found request has left its
\* composition in the memo
C18_Witness ==
    /\ Served
    /\ last.via = "options"
    /\ last.handler.h = "NotFound"
    /\ regs # <<>>

\* C19: under every interleaving of concurrent requests, the parameter map
\* that a running handler reads through Param holds exactly the bindings of
\* its own request, is not in the pool and is not the map of another request
\* whose handler is running, also when the handler has been left running by
\* Timeout.
C19_ParamsOwnedWhileRunning ==
    \A r \in Reqs :
        (Running(r) /\ reqs[r].hasParams)
           => /\ paramMaps[reqs[r].params] = reqs[r].bound
              /\ reqs[r].params \notin paramsPool
              /\ \A q \in Reqs \ {r} :
                    (Running(q) /\ reqs[q].params # 0)
                       => reqs[q].params # reqs[r].params

\* C20: once routes are registered, serving a request writes no router
\* state: the route tree, the static index, the middleware lists and the
\* memoized composition are the same after the request as before it, whether
\* it is matched or answered by a fallback.
C20_ServeHTTPWritesNothing ==
    [][ (regs # <<>> /\ last.op = "none" /\ last'.op = "ServeHTTP")
           => UNCHANGED <<tree, staticHandlers, mux>> ]_allVars

\* the node that the first n segments of a pattern lead to
PrefixNode(pattern, n) == [k \in 1..n |-> ChildKey(pattern[k])]

\* at some capture of the pattern, the tree also has a literal child for
\* the path's segment
LiteralSibling(pattern, path) ==
    \E k \in 1..Len(pattern) :
        /\ IsCapture(pattern[k])
        /\ Append(PrefixNode(pattern, k - 1), path[k]) \in DOMAIN tree

\* C24: when a literal child exists for a segment but the route that serves
\* the request is a parameter route at that level, resolution falls back to
\* the parameter child: a request that a parameter route (without validator)
\* can serve is not answered NotFound because of the literal sibling.
C24_FallsBackToParameterChild ==
    \A i \in 1..Len(regs) :
        ( /\ Served
          /\ HasCapture(regs[i].pattern)
          /\ \A j \in 1..Len(regs) : ~HasValidator(regs[j].pattern)
          /\ SameShape(regs[i].pattern, last.path)
          /\ LiteralSibling(regs[i].pattern, last.path)
          /\ \A j \in 1..Len(regs) : regs[j].pattern # last.path
          /\ last.method \in ClaimedMethods(regs[i]) )
        => /\ last.via # "notfound"
           /\ last.handler.h # "NotFound"

\* the handlers passed to wrap: those of Handle calls and the fallbacks
WrappedHandlers == { HandlerOf(n) : n \in 1..MaxHandle + 1 }
                      \cup { "NotFound", "MethodNotAllowed", "Options" }

\* C25: in every state reached by Use, Handle and fallback dispatches, the
\* memoized wrap(h) returns m1(m2(...mk(h))) for the current middleware list
\* and for the handler h passed in, as the unmemoized wrap does.
C25_MemoizedWrapEqualsUnmemoized ==
    \A h \in WrappedHandlers :
        wrap(mux["m"], Plain(h)).handler =
            applyMiddlewares(mux["m"].middlewares, Len(mux["m"].middlewares), Plain(h))

\* C26: after any sequence of Handle, Use, Group and Optimize calls, every
\* entry of the static index holds the GET handler that is in the dispatch
\* table of the tree node it was built from, so that a GET request answered
\* by the index invokes the handler that the tree holds for that node.
C26_StaticIndexAgreesWithTree ==
    \A path \in DOMAIN staticHandlers :
        staticHandlers[path].get = lookupGet(tree[staticHandlers[path].methods].methods)

\* a node that carries a dispatch table and is reached from the root through
\* literal children only, no node on the way being a wildcard node
Indexable(node) ==
    /\ ~tree[node].methods.isNil
    /\ \A k \in 1..Len(node) : node[k] # ParamKey
    /\ \A k \in 0..Len(node) : ~tree[SubSeq(node, 1, k)].isWildcard

\* C27: after Optimize, the static index has an entry for exactly the nodes
\* that carry a dispatch table and are reached through literal children only:
\* every registered fully-static path is indexed, also when its node or an
\* ancestor has a parameter child besides, and no path through a parameter
\* or wildcard node is indexed.
C27_IndexHoldsExactlyStaticNodes ==
    mux["m"].optimized =>
       \A node \in DOMAIN tree :
          Indexable(node) <=>
             \E path \in DOMAIN staticHandlers : staticHandlers[path].methods = node

\* C28: in every reachable state, under every interleaving of Allow calls
\* and for every configuration, each bucket's steady token count is within
\* 0..N and its burst count within 0..B.
C28_CountersWithinBounds ==
    \A id \in DOMAIN heap :
        /\ 0 <= heap[id].tokens /\ heap[id].tokens <= rl.requests
        /\ 0 <= heap[id].burst /\ heap[id].burst <= rl.burst

\* C29: a bucket's lastSeen never decreases: under every interleaving of
\* Allow calls, every store to lastSeen writes a value greater than or equal
\* to the value it replaces.
C29_LastSeenNeverDecreases ==
    [][ \A id \in DOMAIN heap : heap'[id].lastSeen >= heap[id].lastSeen ]_allVars

\* C30: the number of buckets in a shard never exceeds maxSize, after any
\* sequence of Allow calls with any number of distinct keys.
C30_ShardSizeBounded ==
    Cardinality(DOMAIN buckets) <= rl.maxSize

\* the WriteHeader calls made on the response
Written == { writes[k] : k \in 1..Len(writes) }

\* no goroutine of the request is still running
AllDone == \A g \in Goroutines : gos[g].mode \in {"idle", "done"}

\* C21: when Recovery is the outermost middleware, a panic raised by the
\* handler is converted into a 500 response and never leaves ServeHTTP nor
\* terminates the process, whatever middlewares come after Recovery.
C21_RecoveryContainsPanics ==
    (mwChain # <<>> /\ mwChain[1] = "Recovery") =>
       /\ exit # "escaped"
       /\ exit # "crashed"
       /\ (raised /\ AllDone) => 500 \in Written

Happened(e) == \E k \in 1..Len(events) : events[k] = e

\* the event a happened, and the event b did not happen before it
Before(a, b) ==
    \E i \in 1..Len(events) :
        events[i] = a /\ \A j \in 1..i : events[j] # b

ForwardedFrom(ip, t) ==
    { n \in 1..Len(decisions) :
        /\ decisions[n].forwarded
        /\ decisions[n].ip = ip
        /\ t <= decisions[n].at
        /\ decisions[n].at < t + rate.duration }

\* C23: RateLimit(requests, duration) forwards at most `requests` requests
\* per client key in any time window of length `duration`, under any arrival
\* pattern and any interleaving of concurrent requests from that key.
C23_AtMostRequestsPerWindow ==
    \A n \in 1..Len(decisions) :
        Cardinality(ForwardedFrom(decisions[n].ip, decisions[n].at)) <= rate.requests

\* the n-th call created a bucket for a key that had one before
Recreated(n) ==
    /\ log[n].kind = "create"
    /\ \E m \in 1..(n - 1) : log[m].key = log[n].key

\* the calls for the key of the n-th call, from that call on, that were
\* admitted within one interval of it
AdmittedSince(n) ==
    { m \in CallsFor(log[n].key) :
        m >= n /\ log[m].result /\ log[m].now < log[n].now + rl.interval }

\* the admissions of a key in the interval that starts with its first call
\* after two idle intervals, had its bucket been kept: that call refills the
\* bucket and is admitted, and the full pools admit N+B more
KeptAdmissions == 1 + rl.requests + rl.burst

ChildNodes(node) ==
    { n \in DOMAIN tree : Len(n) = Len(node) + 1 /\ SubSeq(n, 1, Len(node)) = node }

\* C32: after any sequence of Handle calls in any order, a tree node marked
\* isWildcard has no literal children and no parameter child.
C32_WildcardNodeHasNoChildren ==
    \A node \in DOMAIN tree : tree[node].isWildcard => ChildNodes(node) = {}

\* the tree position that the first i segments of a pattern lead to
SlotOf(pattern, i) == [j \in 1..i |-> ChildKey(SplitPattern(pattern)[j])]

\* the Handle calls that registered a parameter segment at a tree position
RegisteredAt(node) ==
    { n \in 1..Len(regs) :
        /\ Len(node) <= Len(SplitPattern(regs[n].pattern))
        /\ IsCapture(SplitPattern(regs[n].pattern)[Len(node)])
        /\ SlotOf(regs[n].pattern, Len(node)) = node }

\* the parameter segment that the latest of them registered there
LaterRegistered(node) ==
    LET n == CHOOSE k \in RegisteredAt(node) : \A j \in RegisteredAt(node) : j <= k
    IN  ParamSyntax[SplitPattern(regs[n].pattern)[Len(node)]]

\* C33: a parameter segment registered at a tree position that already has a
\* parameter child overwrites the slot: the position holds the name and the
\* pattern registered last, and a request through the position has its
\* segment bound under that name.
C33_LaterParameterOverwritesSlot ==
    \A node \in DOMAIN tree :
        (node # Root /\ node[Len(node)] = ParamKey) =>
            /\ RegisteredAt(node) # {}
            /\ tree[node].paramName = LaterRegistered(node).paramName
            /\ tree[node].rxPattern =
                  (IF LaterRegistered(node).hasRx
                   THEN LaterRegistered(node).rxPattern ELSE NoRx)
            /\ (Served /\ last.via = "route" /\ Len(last.path) >= Len(node)
                       /\ SubSeq(node, 1, Len(node) - 1)
                            = SubSeq(last.path, 1, Len(node) - 1))
                  => Param(last, LaterRegistered(node).paramName)
                        = last.path[Len(node)]

\* the positions of a list that hold a given entry
PositionsOf(list, entry) == { i \in 1..Len(list) : list[i] = entry }

\* C34: after any sequence of addHandler calls on a dispatch table, its
\* allowedList names exactly the methods that have a handler plus OPTIONS,
\* each exactly once, with the registered methods in sorted order, also when
\* OPTIONS itself is a registered method.
C34_AllowedListNamesEachMethodOnce ==
    \A node \in DOMAIN tree :
        ~tree[node].methods.isNil =>
            LET mh == tree[node].methods
                named == { mh.allowedList[i] : i \in 1..Len(mh.allowedList) }
            IN  /\ named = DOMAIN mh.handlers \cup {MethodOptions}
                /\ \A method \in named :
                      Cardinality(PositionsOf(mh.allowedList, method)) = 1
                /\ \A i, j \in 1..Len(mh.allowedList) :
                      (/\ i < j
                       /\ mh.allowedList[i] \in DOMAIN mh.handlers
                       /\ mh.allowedList[j] \in DOMAIN mh.handlers
                       /\ mh.allowedList[i] # mh.allowedList[j])
                         => MethodRank[mh.allowedList[i]] < MethodRank[mh.allowedList[j]]

\* C35: when a wildcard route P/... and the literal route P are both
\* registered for the same method with different handlers, in either order,
\* a request for P invokes the handler registered for P and a request for P/x
\* invokes the handler registered for P/...
C35_WildcardAndLiteralBothStay ==
    \A i, j \in 1..Len(regs) :
        (/\ Len(regs) = 2
         /\ regs[i].pattern = <<"static", "...">>
         /\ regs[j].pattern = <<"static">>
         /\ regs[i].methods = regs[j].methods
         /\ Served /\ last.method = MethodGet)
            => /\ last.path = <<"static">> => last.handler.h = regs[j].handler
               /\ last.path = <<"static", "x">> => last.handler.h = regs[i].handler

\* the fallback handler that ServeHTTP wraps for a request it does not
\* dispatch to a route
FallbackOf(via) ==
    IF via = "options" THEN "Options"
    ELSE IF via = "notallowed" THEN "MethodNotAllowed"
    ELSE "NotFound"

\* C36: middleware is bound to a route at registration time: a request to a
\* route runs the middleware list the router had when the route was
\* registered, whatever Use added later, while the NotFound, MethodNotAllowed
\* and Options fallbacks run wrapped with the parent router's current list.
C36_MiddlewareBoundAtRegistration ==
    /\ \A i \in 1..Len(regs) :
          ( /\ Served
            /\ IsLiteralPattern(regs[i].pattern)
            /\ OnlyHandleFor(i)
            /\ last.path = regs[i].pattern
            /\ last.method \in ClaimedMethods(regs[i]) )
          => last.handler.chain = regs[i].middlewares
    /\ (Served /\ last.via \in {"notfound", "notallowed", "options"})
          => last.handler =
                applyMiddlewares(mux["m"].middlewares, Len(mux["m"].middlewares),
                                 Plain(FallbackOf(last.via)))

\* C37: under every interleaving of concurrent requests, the status written
\* by a handler reaches only the response of the request the handler was
\* invoked for, a response receives a status from at most one of the handler
\* and the Timeout path, and the pooled statusWriter of a request is neither
\* back in the pool nor bound to another response while a handler started by
\* Timeout is still running.
C37_WritesReachOwnResponseOnly ==
    \A r \in Reqs :
        /\ \A wr \in responses[r] : wr.from = "handler" => wr.by = r
        /\ ~\E a, b \in responses[r] : a.from = "handler" /\ b.from = "Timeout"
        /\ (Running(r) /\ reqs[r].sw # 0)
              => /\ statusWriters[reqs[r].sw].ResponseWriter = r
                 /\ reqs[r].sw \notin responseWriterPool

\* the capture names of a pattern
CaptureNames(pattern) ==
    { ParamSyntax[pattern[k]].paramName :
        k \in { n \in 1..Len(pattern) : IsCapture(pattern[n]) } }

\* the names of the parameter nodes on the way from the root to a node
NamesOnPath(node) ==
    { tree[SubSeq(node, 1, k)].paramName :
        k \in { n \in 1..Len(node) : node[n] = ParamKey } }

\* a request gets its handler invoked
HandedOver(r) == reqs[r].pc = "idle" /\ reqs'[r].pc = "handling"

====
